---- MODULE Spec2Model ----
(***************************************************************************)
(* Model of simple_snowflake_mcp/server.py: the MCP request handlers over  *)
(* the in-memory note store and the Snowflake SQL tools.                   *)
(*                                                                         *)
(* Text values whose characters the code inspects (note names, URIs, SQL)  *)
(* are sequences of one-character strings; opaque text values (note        *)
(* contents, identifiers, messages) are strings.                           *)
(***************************************************************************)
EXTENDS Integers, Sequences, FiniteSets, TLC

VARIABLES notes, MCP_READ_ONLY, openConns, req, resp

vars == <<notes, MCP_READ_ONLY, openConns, req, resp>>

\* ------------------------------------------------------------------ bounds

\* At most this many backend connections are left open at once.
MaxOpen == 1

\* ------------------------------------------------------------- input sets

NoteNames == { <<"a">>, <<"/", "a">> }

NoteContents == { "x", "y" }

\* -------------------------------------------------------- text primitives

\* str.lstrip("/") of server.py line 58: every leading "/" is removed.
RECURSIVE LStripSlash(_)
LStripSlash(s) ==
    IF s # <<>> /\ Head(s) = "/" THEN LStripSlash(Tail(s)) ELSE s

Whitespace == { " ", "\t", "\n" }

\* str.strip(): leading and trailing whitespace removed.
RECURSIVE LStrip(_)
LStrip(s) ==
    IF s # <<>> /\ Head(s) \in Whitespace THEN LStrip(Tail(s)) ELSE s

RECURSIVE RStrip(_)
RStrip(s) ==
    IF s # <<>> /\ s[Len(s)] \in Whitespace
    THEN RStrip(SubSeq(s, 1, Len(s) - 1))
    ELSE s

Strip(s) == RStrip(LStrip(s))

\* str.split() without a separator: the maximal runs of non-whitespace.
RECURSIVE TakeToken(_)
TakeToken(s) ==
    IF s = <<>> \/ Head(s) \in Whitespace THEN <<>>
    ELSE <<Head(s)>> \o TakeToken(Tail(s))

RECURSIVE Split(_)
Split(s) ==
    LET t == LStrip(s) IN
    IF t = <<>> THEN <<>>
    ELSE LET tok == TakeToken(t) IN
         <<tok>> \o Split(SubSeq(t, Len(tok) + 1, Len(t)))

LowerLetters ==
    << "a", "b", "c", "d", "e", "f", "g", "h", "i", "j", "k", "l", "m",
       "n", "o", "p", "q", "r", "s", "t", "u", "v", "w", "x", "y", "z" >>

UpperLetters ==
    << "A", "B", "C", "D", "E", "F", "G", "H", "I", "J", "K", "L", "M",
       "N", "O", "P", "Q", "R", "S", "T", "U", "V", "W", "X", "Y", "Z" >>

\* str.upper(), character by character.
Upper(s) ==
    [ i \in DOMAIN s |->
        IF \E k \in DOMAIN LowerLetters : LowerLetters[k] = s[i]
        THEN UpperLetters[CHOOSE k \in DOMAIN LowerLetters : LowerLetters[k] = s[i]]
        ELSE s[i] ]

\* ------------------------------------------------------------------- URLs

NoteScheme == << "n", "o", "t", "e" >>

FileScheme == << "f", "i", "l", "e" >>

Authority == << "i", "n", "t", "e", "r", "n", "a", "l" >>

\* f"note://internal/{name}" of line 39.
FormatUri(name) ==
    NoteScheme \o << ":", "/", "/" >> \o Authority \o << "/" >> \o name

\* The first index at or after from where s holds c, 0 when there is none.
IndexOf(s, c, from) ==
    IF \E i \in from..Len(s) : s[i] = c
    THEN CHOOSE i \in from..Len(s) :
            s[i] = c /\ \A j \in from..(i - 1) : s[j] # c
    ELSE 0

\* AnyUrl.scheme: the text before the first ":".
UrlScheme(u) == SubSeq(u, 1, IndexOf(u, ":", 1) - 1)

\* Where the path starts: the first "/" after "scheme://", 0 when the URL
\* ends with its authority.
UrlPathStart(u) == IndexOf(u, "/", IndexOf(u, ":", 1) + 3)

\* AnyUrl.path is None when the URL has no path.
UrlPathIsNone(u) == UrlPathStart(u) = 0

\* AnyUrl.path: the text from the first "/" after the authority.
UrlPath(u) == SubSeq(u, UrlPathStart(u), Len(u))

\* ------------------------------------------------------------- note store

\* The dict notes, in insertion order: a sequence of (name, content) entries
\* with distinct names.
Keys(d) == { d[i].name : i \in DOMAIN d }

\* notes[name] for a name the dict holds.
Lookup(d, name) == d[CHOOSE i \in DOMAIN d : d[i].name = name].content

\* Mutant of Put: every assignment appends a new entry.
PutAppend(d, name, content) ==
    Append(d, [name |-> name, content |-> content])

\* notes[name] = content: overwrite in place, or insert at the end.
Put(d, name, content) ==
    IF name \in Keys(d)
    THEN [ i \in DOMAIN d |->
            IF d[i].name = name
            THEN [name |-> name, content |-> content]
            ELSE d[i] ]
    ELSE Append(d, [name |-> name, content |-> content])

\* ------------------------------------------------- requests and responses

\* The arguments parameter: None, or a dict (a function on its keys).
NoneArguments == [isNone |-> TRUE, map |-> <<>>]

DictArguments(m) == [isNone |-> FALSE, map |-> m]

\* not arguments: None and the empty dict are both falsy.
Falsy(arguments) == arguments.isNone \/ DOMAIN arguments.map = {}

Has(arguments, key) == ~arguments.isNone /\ key \in DOMAIN arguments.map

\* What a handler call produced. status "result" is a value returned to the
\* transport, "failure" an exception raised to it.
EmptyResponse ==
    [ status    |-> "result",
      error     |-> "",
      text      |-> "",
      cause     |-> "",
      returned  |-> <<>>,
      resources |-> <<>>,
      bullets   |-> <<>>,
      tools     |-> <<>>,
      connects  |-> 0,
      opened    |-> 0,
      executed  |-> <<>>,
      released  |-> 0,
      notified  |-> 0,
      snapshot  |-> <<>> ]

Raise(error) == [EmptyResponse EXCEPT !.status = "failure", !.error = error]

TextResult(text) == [EmptyResponse EXCEPT !.text = text]

\* The outcome of a handler: the store it leaves and its response.
Outcome(store, response) == [notes |-> store, resp |-> response]

\* --------------------------------------------------------------- handlers

\* handle_list_resources: one Resource per entry of notes, in dict order.
HandleListResources(store) ==
    [EmptyResponse EXCEPT
        !.resources = [ i \in DOMAIN store |-> FormatUri(store[i].name) ]]

\* Mutant of HandleReadResource: a name the store lacks reads as empty text.
HandleReadResourceDefault(store, uri) ==
    IF UrlScheme(uri) # NoteScheme
    THEN Raise("ValueError: Unsupported URI scheme")
    ELSE IF ~UrlPathIsNone(uri)
         THEN LET name == LStripSlash(UrlPath(uri)) IN
              IF name \in Keys(store)
              THEN [EmptyResponse EXCEPT !.returned = <<Lookup(store, name)>>]
              ELSE [EmptyResponse EXCEPT !.returned = <<"">>]
         ELSE Raise("ValueError: Note not found")

\* handle_read_resource. notes[name] raises KeyError for a name the dict
\* lacks; the final raise is reached only when the URL has no path.
HandleReadResource(store, uri) ==
    IF UrlScheme(uri) # NoteScheme
    THEN Raise("ValueError: Unsupported URI scheme")
    ELSE IF ~UrlPathIsNone(uri)
         THEN LET name == LStripSlash(UrlPath(uri)) IN
              IF name \in Keys(store)
              THEN [EmptyResponse EXCEPT !.returned = <<Lookup(store, name)>>]
              ELSE Raise("KeyError")
         ELSE Raise("ValueError: Note not found")

\* handle_list_prompts: the static catalog.
HandleListPrompts == TextResult("summarize-notes")

\* handle_get_prompt.
HandleGetPrompt(store, name, arguments) ==
    IF name # "summarize-notes"
    THEN Raise("ValueError: Unknown prompt")
    ELSE LET style == IF Has(arguments, "style")
                      THEN arguments.map["style"] ELSE "brief"
         IN  [EmptyResponse EXCEPT
                !.text = IF style = "detailed"
                         THEN "Here are the current notes to summarize: Give extensive details."
                         ELSE "Here are the current notes to summarize:",
                !.bullets = store]

\* handle_list_tools: the static catalog of eight tools.
ToolNames ==
    << "add-note", "execute-snowflake-sql", "list-snowflake-warehouses",
       "list-databases", "list-views", "describe-view", "query-view",
       "execute-query" >>

HandleListTools == [EmptyResponse EXCEPT !.tools = ToolNames]

\* send_resource_list_changed(), line 224: the notification leaves while the
\* store is visibleStore. The session is taken to deliver it.
SendResourceListChanged(response, visibleStore) ==
    [response EXCEPT !.notified = @ + 1, !.snapshot = visibleStore]

\* inputSchema["required"] of each tool of handle_list_tools.
RequiredArguments(name) ==
    CASE name = "add-note" -> {"name", "content"}
      [] name = "execute-snowflake-sql" -> {"sql"}
      [] name = "list-views" -> {"database", "schema"}
      [] name = "describe-view" -> {"database", "schema", "view"}
      [] name = "query-view" -> {"database", "schema", "view"}
      [] name = "execute-query" -> {"sql"}
      [] OTHER -> {}

\* Mutant of HandleAddNote: the notification is sent before the store is
\* written.
HandleAddNoteNotifyFirst(store, arguments) ==
    IF Falsy(arguments)
    THEN Outcome(store, Raise("ValueError: Missing arguments"))
    ELSE LET note_name == IF Has(arguments, "name")
                          THEN arguments.map["name"] ELSE <<>>
             content   == IF Has(arguments, "content")
                          THEN arguments.map["content"] ELSE ""
         IN  IF note_name = <<>> \/ content = ""
             THEN Outcome(store, Raise("ValueError: Missing name or content"))
             ELSE Outcome(Put(store, note_name, content),
                          SendResourceListChanged(TextResult("Added note"), store))

\* The add-note branch of handle_call_tool. arguments.get(key) is None for a
\* missing key, and None is as falsy as the empty string.
HandleAddNote(store, arguments) ==
    IF Falsy(arguments)
    THEN Outcome(store, Raise("ValueError: Missing arguments"))
    ELSE LET note_name == IF Has(arguments, "name")
                          THEN arguments.map["name"] ELSE <<>>
             content   == IF Has(arguments, "content")
                          THEN arguments.map["content"] ELSE ""
         IN  IF note_name = <<>> \/ content = ""
             THEN Outcome(store, Raise("ValueError: Missing name or content"))
             ELSE LET written == Put(store, note_name, content) IN
                  Outcome(written,
                          SendResourceListChanged(TextResult("Added note"), written))

\* ---------------------------------------------------------- backend calls

\* The driver calls a handler makes for its statements, in order, after
\* connect() and cursor(): execute, fetchall and the read of description for
\* each statement. cur.close() and ctx.close() follow them and are taken
\* not to fail.
RECURSIVE StatementCalls(_)
StatementCalls(stmts) ==
    IF stmts = <<>> THEN <<>>
    ELSE << [call |-> "execute", stmt |-> Head(stmts)],
            [call |-> "fetchall", stmt |-> Head(stmts)],
            [call |-> "description", stmt |-> Head(stmts)] >>
         \o StatementCalls(Tail(stmts))

DriverCalls(stmts) ==
    << [call |-> "connect", stmt |-> <<>>],
       [call |-> "cursor", stmt |-> <<>>] >> \o StatementCalls(stmts)

\* The points where the backend may fail a call of n statements: 0 is no
\* failure, k the k-th driver call raising.
FaultPoints(n) == 0..Len(DriverCalls([i \in 1..n |-> <<>>]))

IsExecute(c) == c.call = "execute"

\* Mutant of ExceptException: the exception leaves the handler.
PropagateException(partial, message) ==
    [partial EXCEPT !.status = "failure", !.error = message]

\* except Exception as e: return [TextContent(text=f"Erreur Snowflake: {e}")]
ExceptException(partial, message) ==
    [partial EXCEPT !.status = "result",
                    !.text = "Erreur Snowflake: ",
                    !.cause = message]

\* connect, cursor, execute/fetchall/description per statement, close, close
\* and the rendering of the rows, inside the handler's try block. The
\* failing call raises; the calls before it have completed, those after it
\* (the two close() calls among them) are not made.
SqlRun(stmts, rendering, failAt) ==
    LET calls  == DriverCalls(stmts)
        made   == IF failAt = 0 THEN calls ELSE SubSeq(calls, 1, failAt)
        sent   == SelectSeq(made, IsExecute)
        partial ==
            [EmptyResponse EXCEPT
                !.connects = 1,
                !.opened   = IF failAt = 1 THEN 0 ELSE 1,
                !.executed = [ i \in DOMAIN sent |-> sent[i].stmt ],
                !.released = IF failAt = 0 THEN 1 ELSE 0]
    IN  IF failAt # 0
        THEN ExceptException(partial, calls[failAt].call)
        ELSE [partial EXCEPT !.text = rendering]

\* arguments[key] for each key in turn: the message of the first exception,
\* "" when every subscript succeeds.
RECURSIVE SubscriptError(_, _)
SubscriptError(arguments, keys) ==
    IF keys = <<>> THEN ""
    ELSE IF arguments.isNone
         THEN "'NoneType' object is not subscriptable"
         ELSE IF Head(keys) \notin DOMAIN arguments.map
              THEN "'" \o Head(keys) \o "'"
              ELSE SubscriptError(arguments, Tail(keys))

\* ------------------------------------------------------------- SQL tools

\* The execute-snowflake-sql branch.
HandleExecuteSnowflakeSql(arguments, failAt) ==
    IF Falsy(arguments) \/ ~Has(arguments, "sql")
    THEN Raise("ValueError: Argument 'sql' manquant")
    ELSE SqlRun(<< arguments.map["sql"] >>, "str(result)", failAt)

\* The list-snowflake-warehouses branch.
HandleListWarehouses(failAt) ==
    SqlRun(<< <<"SHOW WAREHOUSES;">> >>, "str(result)", failAt)

\* The list-databases branch.
HandleListDatabases(failAt) ==
    SqlRun(<< <<"SHOW DATABASES;">> >>, "str(result)", failAt)

\* The list-views branch.
HandleListViews(arguments, failAt) ==
    LET err == SubscriptError(arguments, <<"database", "schema">>) IN
    IF err # ""
    THEN ExceptException(EmptyResponse, err)
    ELSE SqlRun(<< << "SHOW VIEWS IN ", arguments.map["database"], ".",
                      arguments.map["schema"], ";" >> >>,
                "str(result)", failAt)

\* The describe-view branch: two statements on one cursor.
HandleDescribeView(arguments, failAt) ==
    LET err == SubscriptError(arguments, <<"database", "schema", "view">>) IN
    IF err # ""
    THEN ExceptException(EmptyResponse, err)
    ELSE LET database == arguments.map["database"]
             schema   == arguments.map["schema"]
             view     == arguments.map["view"]
         IN  SqlRun(<< << "DESC VIEW ", database, ".", schema, ".", view, ";" >>,
                       << "SHOW VIEWS LIKE '", view, "' IN ", database, ".",
                          schema, ";" >> >>,
                    "DESC:/SHOW:", failAt)

\* The query-view branch.
HandleQueryView(arguments, failAt) ==
    LET err == SubscriptError(arguments, <<"database", "schema", "view">>) IN
    IF err # ""
    THEN ExceptException(EmptyResponse, err)
    ELSE LET limit == IF "limit" \in DOMAIN arguments.map
                      THEN arguments.map["limit"] ELSE "100"
         IN  SqlRun(<< << "SELECT * FROM ", arguments.map["database"], ".",
                          arguments.map["schema"], ".", arguments.map["view"],
                          " LIMIT ", limit, ";" >> >>,
                    "markdown", failAt)

ReadOnlyVerbs ==
    { << "S", "E", "L", "E", "C", "T" >>,
      << "S", "H", "O", "W" >>,
      << "D", "E", "S", "C", "R", "I", "B", "E" >>,
      << "E", "X", "P", "L", "A", "I", "N" >>,
      << "W", "I", "T", "H" >> }

\* The text of line 340, its accents dropped.
DenialText == "Seules les requetes en lecture seule sont autorisees."

\* Mutant of IsAllowed: the statement only has to start with an allowed verb.
IsAllowedPrefix(sql) ==
    LET u == Upper(Strip(sql)) IN
    \E v \in ReadOnlyVerbs : Len(u) >= Len(v) /\ SubSeq(u, 1, Len(v)) = v

\* sql.strip().split()[0].upper() in [...], for an sql with a first token.
IsAllowed(sql) == Upper(Head(Split(Strip(sql)))) \in ReadOnlyVerbs

\* Mutant of ReadOnlyOf: the caller's read_only is ignored.
ReadOnlyDefaultOnly(arguments, default) == default

\* arguments.get("read_only", MCP_READ_ONLY)
ReadOnlyOf(arguments, default) ==
    IF "read_only" \in DOMAIN arguments.map
    THEN arguments.map["read_only"] ELSE default

\* read_only and not allowed
Refused(read_only, allowed) == read_only /\ ~allowed

\* The execute-query branch.
HandleExecuteQuery(arguments, default, failAt) ==
    LET err == SubscriptError(arguments, <<"sql">>) IN
    IF err # ""
    THEN ExceptException(EmptyResponse, err)
    ELSE LET sql       == arguments.map["sql"]
             read_only == ReadOnlyOf(arguments, default)
         IN  IF Split(Strip(sql)) = <<>>
             THEN ExceptException(EmptyResponse, "list index out of range")
             ELSE IF Refused(read_only, IsAllowed(sql))
                  THEN TextResult(DenialText)
                  ELSE SqlRun(<< sql >>, "markdown", failAt)

SqlTools ==
    { "execute-snowflake-sql", "list-snowflake-warehouses", "list-databases",
      "list-views", "describe-view", "query-view", "execute-query" }

\* handle_call_tool: the chain of name tests, ending in Unknown tool.
HandleCallTool(store, default, name, arguments, failAt) ==
    CASE name = "add-note" -> HandleAddNote(store, arguments)
      [] name = "execute-snowflake-sql" ->
            Outcome(store, HandleExecuteSnowflakeSql(arguments, failAt))
      [] name = "list-snowflake-warehouses" ->
            Outcome(store, HandleListWarehouses(failAt))
      [] name = "list-databases" ->
            Outcome(store, HandleListDatabases(failAt))
      [] name = "list-views" ->
            Outcome(store, HandleListViews(arguments, failAt))
      [] name = "describe-view" ->
            Outcome(store, HandleDescribeView(arguments, failAt))
      [] name = "query-view" ->
            Outcome(store, HandleQueryView(arguments, failAt))
      [] name = "execute-query" ->
            Outcome(store, HandleExecuteQuery(arguments, default, failAt))
      [] OTHER -> Outcome(store, Raise("ValueError: Unknown tool"))

\* ----------------------------------------------------------------- inputs

Restrict(f, D) == [ k \in D |-> f[k] ]

\* None, and every dict made of some of the entries of full.
ArgumentsWithin(full) ==
    { NoneArguments } \cup { DictArguments(Restrict(full, D)) : D \in SUBSET DOMAIN full }

AddNoteArguments ==
    UNION { ArgumentsWithin([ k \in {"name", "content"} |->
                                IF k = "name" THEN n ELSE c ]) :
            n \in NoteNames \cup { <<>> }, c \in NoteContents \cup { "" } }

ReadUris ==
    { scheme \o << ":", "/", "/" >> \o Authority \o path :
        scheme \in { NoteScheme, FileScheme },
        path \in { <<>> } \cup { << "/" >> \o n : n \in NoteNames \cup { <<>> } } }

PromptArguments ==
    UNION { ArgumentsWithin([ k \in {"style"} |-> style ]) :
            style \in { "brief", "detailed" } }

SqlSample ==
    { << "S", "E", "L", "E", "C", "T", " ", "1" >>,
      << "D", "E", "L", "E", "T", "E", " ", "F", "R", "O", "M", " ", "t" >> }

SqlInputs ==
    SqlSample \cup
    { << " ", "\n", "s", "h", "o", "w", " ", "x" >>,
      << "D", "e", "s", "c", "r", "i", "b", "e", " ", "t" >>,
      << "E", "X", "P", "L", "A", "I", "N", "\t", "q" >>,
      << "W", "I", "T", "H" >>,
      << "S", "E", "L", "E", "C", "T", "X" >>,
      << >>,
      << " ", "\n" >> }

SqlArguments(sqls) ==
    UNION { ArgumentsWithin([ k \in {"sql"} |-> sql ]) : sql \in sqls }

QueryArguments(sqls) ==
    UNION { ArgumentsWithin([ k \in {"sql", "read_only"} |->
                                IF k = "sql" THEN sql ELSE ro ]) :
            sql \in sqls, ro \in BOOLEAN }

NoArguments == { NoneArguments, DictArguments(<<>>) }

ListViewsArguments ==
    ArgumentsWithin([ k \in {"database", "schema"} |-> k ])

DescribeViewArguments ==
    ArgumentsWithin([ k \in {"database", "schema", "view"} |-> k ])

QueryViewArguments ==
    ArgumentsWithin([ k \in {"database", "schema", "view", "limit"} |->
                        IF k = "limit" THEN "5" ELSE k ])

\* ---------------------------------------------------------------- actions

Request(kind, name, arguments, uri, fault) ==
    [kind |-> kind, name |-> name, arguments |-> arguments, uri |-> uri,
     fault |-> fault]

Init ==
    /\ notes = <<>>
    /\ MCP_READ_ONLY \in BOOLEAN
    /\ openConns = 0
    /\ req = Request("", "", NoneArguments, <<>>, 0)
    /\ resp = [EmptyResponse EXCEPT !.status = "none"]

\* A request served to completion: the handler's outcome becomes the state.
Respond(out) ==
    /\ openConns + out.resp.opened - out.resp.released <= MaxOpen
    /\ notes' = out.notes
    /\ openConns' = openConns + out.resp.opened - out.resp.released
    /\ resp' = out.resp
    /\ UNCHANGED MCP_READ_ONLY

\* The driver calls the backend may fail during this tool call: those of a
\* call that reaches the backend, none otherwise.
Faults(name, arguments, n) ==
    IF HandleCallTool(notes, MCP_READ_ONLY, name, arguments, 0).resp.connects > 0
    THEN FaultPoints(n)
    ELSE { 0 }

\* call-tool: fault is the driver call the backend fails, 0 for none.
CallTool(name, arguments, failAt) ==
    /\ req' = Request("call-tool", name, arguments, <<>>, failAt)
    /\ Respond(HandleCallTool(notes, MCP_READ_ONLY, name, arguments, failAt))

ListResources ==
    /\ req' = Request("list-resources", "", NoneArguments, <<>>, 0)
    /\ Respond(Outcome(notes, HandleListResources(notes)))

ReadResource ==
    \E uri \in ReadUris :
        /\ req' = Request("read-resource", "", NoneArguments, uri, 0)
        /\ Respond(Outcome(notes, HandleReadResource(notes, uri)))

ListPrompts ==
    /\ req' = Request("list-prompts", "", NoneArguments, <<>>, 0)
    /\ Respond(Outcome(notes, HandleListPrompts))

GetPrompt ==
    \E name \in { "summarize-notes", "other" }, arguments \in PromptArguments :
        /\ req' = Request("get-prompt", name, arguments, <<>>, 0)
        /\ Respond(Outcome(notes, HandleGetPrompt(notes, name, arguments)))

ListTools ==
    /\ req' = Request("list-tools", "", NoneArguments, <<>>, 0)
    /\ Respond(Outcome(notes, HandleListTools))

AddNote ==
    \E arguments \in AddNoteArguments :
        /\ CallTool("add-note", arguments, 0)

ExecuteSnowflakeSql(sqls) ==
    \E arguments \in SqlArguments(sqls) :
        \E failAt \in Faults("execute-snowflake-sql", arguments, 1) :
            /\ CallTool("execute-snowflake-sql", arguments, failAt)

ListWarehouses ==
    \E arguments \in NoArguments :
        \E failAt \in Faults("list-snowflake-warehouses", arguments, 1) :
            /\ CallTool("list-snowflake-warehouses", arguments, failAt)

ListDatabases ==
    \E arguments \in NoArguments :
        \E failAt \in Faults("list-databases", arguments, 1) :
            /\ CallTool("list-databases", arguments, failAt)

ListViews ==
    \E arguments \in ListViewsArguments :
        \E failAt \in Faults("list-views", arguments, 1) :
            /\ CallTool("list-views", arguments, failAt)

DescribeView ==
    \E arguments \in DescribeViewArguments :
        \E failAt \in Faults("describe-view", arguments, 2) :
            /\ CallTool("describe-view", arguments, failAt)

QueryView ==
    \E arguments \in QueryViewArguments :
        \E failAt \in Faults("query-view", arguments, 1) :
            /\ CallTool("query-view", arguments, failAt)

ExecuteQuery(sqls) ==
    \E arguments \in QueryArguments(sqls) :
        \E failAt \in Faults("execute-query", arguments, 1) :
            /\ CallTool("execute-query", arguments, failAt)

UnknownTool ==
    /\ CallTool("no-such-tool", NoneArguments, 0)

\* Every request kind of the server; the SQL tools get the sample statements.
Next ==
    \/ ListResources
    \/ ReadResource
    \/ ListPrompts
    \/ GetPrompt
    \/ ListTools
    \/ AddNote
    \/ ExecuteSnowflakeSql(SqlSample)
    \/ ListWarehouses
    \/ ListDatabases
    \/ ListViews
    \/ DescribeView
    \/ QueryView
    \/ ExecuteQuery(SqlSample)
    \/ UnknownTool

Spec == Init /\ [][Next]_vars

\* The SQL tools alone, over every statement of SqlInputs. They neither read
\* nor write the note store.
NextSql ==
    \/ ExecuteSnowflakeSql(SqlInputs)
    \/ ListWarehouses
    \/ ListDatabases
    \/ ListViews
    \/ DescribeView
    \/ QueryView
    \/ ExecuteQuery(SqlInputs)

SpecSql == Init /\ [][NextSql]_vars

\* ------------------------------------------------------------- properties

IsToolCall(name) == req.kind = "call-tool" /\ req.name = name

\* The read_only in force for the execute-query call in req.
EffectiveReadOnly ==
    IF Has(req.arguments, "read_only")
    THEN req.arguments.map["read_only"]
    ELSE MCP_READ_ONLY

\* The whitespace-delimited tokens of the sql of the call in req.
SqlTokens == Split(req.arguments.map["sql"])

\* C1: after a successful add-note(name, content) the listing holds
\* note://internal/<name> and reading that URI returns content; and in every
\* state each listed resource reads back, by its own URI, as the content of
\* the note it was listed for.
C1_ListedNotesReadBack ==
    LET listed == HandleListResources(notes).resources IN
    /\ \A i \in DOMAIN notes :
          HandleReadResource(notes, listed[i]).returned = << notes[i].content >>
    /\ (IsToolCall("add-note") /\ resp.status = "result") =>
          /\ \E i \in DOMAIN listed : listed[i] = FormatUri(req.arguments.map["name"])
          /\ HandleReadResource(notes, FormatUri(req.arguments.map["name"])).returned
                = << req.arguments.map["content"] >>

\* C2: every connection opened during a call of an SQL tool is released
\* before the call returns, so no connection is open after any call.
C2_NoConnectionLeftOpen ==
    /\ resp.released = resp.opened
    /\ openConns = 0

\* C3: an execute-query whose statement has a leading verb outside the
\* allow-list, under an effective read_only of true, returns the denial text
\* as a normal response, and the backend is not touched during the call.
C3_DeniedNeverReachesBackend ==
    ( /\ IsToolCall("execute-query")
      /\ Has(req.arguments, "sql")
      /\ SqlTokens # <<>>
      /\ EffectiveReadOnly
      /\ Upper(SqlTokens[1]) \notin ReadOnlyVerbs )
    => /\ resp.status = "result"
       /\ resp.text = DenialText
       /\ resp.connects = 0
       /\ resp.opened = 0
       /\ resp.executed = <<>>

C3_Witness ==
    /\ IsToolCall("execute-query")
    /\ DOMAIN req.arguments.map = {"sql"}
    /\ req.arguments.map["sql"] =
          << "D", "E", "L", "E", "T", "E", " ", "F", "R", "O", "M", " ", "t" >>
    /\ MCP_READ_ONLY
    /\ resp.text = DenialText
    /\ resp.connects = 0

\* C4: for an execute-query whose sql has a first token, the statement goes
\* to the backend when that token, uppercased, is in the allow-list or the
\* effective read_only (the caller's when given, else the default) is false,
\* and is denied otherwise.
C4_PolicyDecision ==
    ( /\ IsToolCall("execute-query")
      /\ Has(req.arguments, "sql")
      /\ SqlTokens # <<>> )
    => IF Upper(SqlTokens[1]) \in ReadOnlyVerbs \/ ~EffectiveReadOnly
       THEN /\ resp.text # DenialText
            /\ resp.connects = 1
            /\ req.fault = 0 =>
                  /\ resp.executed = << req.arguments.map["sql"] >>
                  /\ resp.text = "markdown"
       ELSE /\ resp.text = DenialText
            /\ resp.connects = 0

C4_Witness ==
    /\ IsToolCall("execute-query")
    /\ MCP_READ_ONLY
    /\ Has(req.arguments, "read_only")
    /\ ~req.arguments.map["read_only"]
    /\ Has(req.arguments, "sql")
    /\ SqlTokens # <<>>
    /\ Upper(SqlTokens[1]) \notin ReadOnlyVerbs
    /\ resp.executed = << req.arguments.map["sql"] >>
    /\ resp.text = "markdown"

\* C5: a call of a tool with required arguments that lacks one of them (or
\* has no argument mapping) ends in a failure raised to the transport, and
\* opens no connection.
C5_MissingArgumentIsProtocolFailure ==
    ( /\ req.kind = "call-tool"
      /\ \E key \in RequiredArguments(req.name) : ~Has(req.arguments, key) )
    => /\ resp.status = "failure"
       /\ resp.connects = 0

\* C6: when the backend fails a driver call during an SQL tool call, the call
\* returns a normal response whose text embeds the failure's message, and
\* nothing is raised to the transport.
C6_BackendFailureIsInBand ==
    ( /\ req.kind = "call-tool"
      /\ req.name \in SqlTools
      /\ req.fault # 0 )
    => /\ resp.status = "result"
       /\ resp.error = ""
       /\ resp.text = "Erreur Snowflake: "
       /\ resp.cause = DriverCalls(<< <<>>, <<>> >>)[req.fault].call

C6_Witness ==
    /\ IsToolCall("describe-view")
    /\ req.fault # 0
    /\ resp.cause = "fetchall"
    /\ Len(resp.executed) = 2
    /\ resp.status = "result"

C8_OneResourcePerName ==
    [][ LET listed == HandleListResources(notes').resources
            added  == /\ req'.kind = "call-tool"
                      /\ req'.name = "add-note"
                      /\ resp'.status = "result"
        IN  /\ Keys(notes) \subseteq Keys(notes')
            /\ Len(listed) = Cardinality(Keys(notes'))
            /\ \A n \in Keys(notes') :
                  Cardinality({ i \in DOMAIN listed : listed[i] = FormatUri(n) }) = 1
            /\ IF added
               THEN /\ Keys(notes') = Keys(notes) \cup { req'.arguments.map["name"] }
                    /\ Lookup(notes', req'.arguments.map["name"])
                          = req'.arguments.map["content"]
                    /\ \A n \in Keys(notes) \ { req'.arguments.map["name"] } :
                          Lookup(notes', n) = Lookup(notes, n)
               ELSE notes' = notes
      ]_vars

C8_Witness ==
    /\ IsToolCall("add-note")
    /\ resp.status = "result"
    /\ Len(notes) = 2
    /\ notes[1].name = req.arguments.map["name"]
    /\ notes[1].content = "y"
    /\ HandleListResources(notes).resources
          = << FormatUri(notes[1].name), FormatUri(notes[2].name) >>

\* C9: an execute-query whose sql is empty or all whitespace, under an
\* effective read_only of true, gets the read-only denial and opens no
\* connection.
C9_BlankSqlIsDenied ==
    ( /\ IsToolCall("execute-query")
      /\ Has(req.arguments, "sql")
      /\ \A i \in DOMAIN req.arguments.map["sql"] :
            req.arguments.map["sql"][i] \in Whitespace
      /\ EffectiveReadOnly )
    => /\ resp.status = "result"
       /\ resp.text = DenialText
       /\ resp.connects = 0

\* C10: an add-note with a non-empty name and content writes the store and
\* then sends exactly one resource-list-changed notification, so the store
\* seen at the notification already holds the note; any other add-note fails,
\* and every step that is not a valid add-note leaves the store unchanged and
\* sends no notification.
C10_NotifiedExactlyOnWrite ==
    [][ LET isAdd == req'.kind = "call-tool" /\ req'.name = "add-note"
            valid == /\ isAdd
                     /\ Has(req'.arguments, "name")
                     /\ Has(req'.arguments, "content")
                     /\ req'.arguments.map["name"] # <<>>
                     /\ req'.arguments.map["content"] # ""
        IN  /\ valid =>
                  /\ resp'.status = "result"
                  /\ resp'.text = "Added note"
                  /\ resp'.notified = 1
                  /\ resp'.snapshot = notes'
                  /\ req'.arguments.map["name"] \in Keys(resp'.snapshot)
                  /\ Lookup(resp'.snapshot, req'.arguments.map["name"])
                        = req'.arguments.map["content"]
            /\ ~valid =>
                  /\ notes' = notes
                  /\ resp'.notified = 0
            /\ (isAdd /\ ~valid) => resp'.status = "failure"
      ]_vars

C10_Witness ==
    /\ IsToolCall("add-note")
    /\ resp.notified = 1
    /\ Len(notes) = 2
    /\ resp.snapshot = notes
    /\ notes[2].name = req.arguments.map["name"]

====
